---- MODULE Spec2Model ----
(***************************************************************************)
(* Model of the coordinate / size handling of carta-python:                *)
(*   carta/util.py   SizeUnit, CoordinateUnit, cached                      *)
(*   carta/image.py  Image.set_channel, set_center, zoom_to_size_x/y       *)
(* A Python string is modelled as a sequence of one-character strings, so  *)
(* that the regular expressions of util.py are computed character by       *)
(* character.                                                              *)
(***************************************************************************)
EXTENDS Integers, Sequences, FiniteSets, TLC

(***************************************************************************)
(* Characters and the character classes of Python's re module.             *)
(***************************************************************************)
DigitChars == <<"0", "1", "2", "3", "4", "5", "6", "7", "8", "9">>

UpperChars == <<"A", "B", "C", "D", "E", "F", "G", "H", "I", "J", "K", "L", "M",
                "N", "O", "P", "Q", "R", "S", "T", "U", "V", "W", "X", "Y", "Z">>

LowerChars == <<"a", "b", "c", "d", "e", "f", "g", "h", "i", "j", "k", "l", "m",
                "n", "o", "p", "q", "r", "s", "t", "u", "v", "w", "x", "y", "z">>

\* \d
IsDigit(c) == c \in {DigitChars[i] : i \in DOMAIN DigitChars}

\* \s
IsSpace(c) == c \in {" ", "\t", "\n"}

\* re.IGNORECASE compares letters without regard to case.
LowerOf ==
    [c \in {UpperChars[i] : i \in DOMAIN UpperChars} |->
        LowerChars[CHOOSE i \in DOMAIN UpperChars : UpperChars[i] = c]]

Lower(c) == IF c \in DOMAIN LowerOf THEN LowerOf[c] ELSE c

LowerStr(t) == IF t = <<>> THEN <<>> ELSE [i \in 1..Len(t) |-> Lower(t[i])]

\* The substring s[a..b] (1-based, inclusive), empty when b < a.
Sub(s, a, b) == IF b < a THEN <<>> ELSE SubSeq(s, a, b)

\* \d{lo,hi}
IsDigits(t, lo, hi) ==
    /\ Len(t) >= lo
    /\ Len(t) <= hi
    /\ \A i \in 1..Len(t) : IsDigit(t[i])

\* \d{lo,} (\d* is lo = 0, \d+ is lo = 1)
IsDigitsFrom(t, lo) == IsDigits(t, lo, Len(t))

\* \d{lo,hi}(\.\d+)?
IsDecimal(t, lo, hi) ==
    \E k \in 0..Len(t) :
        /\ IsDigits(Sub(t, 1, k), lo, hi)
        /\ \/ k = Len(t)
           \/ /\ k + 2 <= Len(t)
              /\ t[k + 1] = "."
              /\ IsDigitsFrom(Sub(t, k + 2, Len(t)), 1)

\* \d+(?:\.\d+)?
IsNumber(t) == IsDecimal(t, 1, Len(t))

\* \s*
IsSpaces(t) == \A i \in 1..Len(t) : IsSpace(t[i])

\* The positions at which $ matches: the end of the string, and just before a
\* newline that ends the string.
Ends(s) ==
    {Len(s)} \cup (IF Len(s) > 0 /\ s[Len(s)] = "\n" THEN {Len(s) - 1} ELSE {})

\* The position after an optional leading "-" (the pattern -?).
AfterSign(s) == IF Len(s) > 0 /\ s[1] = "-" THEN 2 ELSE 1

\* ^[-?](\d+(?:\.\d+)?)[\s*](u1|u2|...)$ under re.IGNORECASE: the set of
\* (group 1, group 2) of the matches; empty when re.match returns None.  The
\* groups are substrings of s, in the case they were written in.
UnitRegex(s, units, signed, spaced) ==
    LET from == IF signed THEN AfterSign(s) ELSE 1
        \* where the number may end, where the whitespace after it may end, and
        \* where the unit after that may end
        number_ends == {i \in 0..Len(s) : IsNumber(Sub(s, from, i))}
        space_ends(i) == {j \in i..Len(s) :
                            (spaced \/ j = i) /\ IsSpaces(Sub(s, i + 1, j))}
        unit_ends(j) == {e \in Ends(s) :
                            j <= e /\ LowerStr(Sub(s, j + 1, e)) \in units}
    IN  UNION { UNION { { <<Sub(s, from, i), Sub(s, j + 1, e)>> : e \in unit_ends(j) } :
                        j \in space_ends(i) } :
                i \in number_ends }

(***************************************************************************)
(* carta.util.SizeUnit                                                     *)
(***************************************************************************)
\* The keys and values of NORMALIZED_UNIT, as character sequences.
U_arcmin  == <<"a", "r", "c", "m", "i", "n">>
U_arcsec  == <<"a", "r", "c", "s", "e", "c">>
U_deg     == <<"d", "e", "g">>
U_degree  == <<"d", "e", "g", "r", "e", "e">>
U_degrees == <<"d", "e", "g", "r", "e", "e", "s">>
U_px      == <<"p", "x">>
U_pix     == <<"p", "i", "x">>
U_pixel   == <<"p", "i", "x", "e", "l">>
U_pixels  == <<"p", "i", "x", "e", "l", "s">>
U_none    == <<>>
U_dquote  == <<"\"">>
U_quote   == <<"'">>

SYMBOL_UNITS == {U_none, U_quote, U_dquote}

WORD_UNITS == {U_arcmin, U_arcsec, U_deg, U_degree, U_degrees,
               U_px, U_pix, U_pixel, U_pixels}

\* The dict SizeUnit.NORMALIZED_UNIT: its keys are DOMAIN NORMALIZED_UNIT.
NORMALIZED_UNIT ==
    [u \in WORD_UNITS \cup SYMBOL_UNITS |->
        CASE u = U_arcmin -> U_quote
          [] u = U_arcsec -> U_dquote
          [] u \in {U_deg, U_degree, U_degrees} -> U_deg
          [] u \in {U_px, U_pix, U_pixel, U_pixels} -> U_px
          [] u = U_none -> U_dquote
          [] u = U_dquote -> U_dquote
          [] u = U_quote -> U_quote]

\* re.match(SYMBOL_UNIT_REGEX, size, re.IGNORECASE): no whitespace before the unit.
SYMBOL_UNIT_REGEX(size) == UnitRegex(size, SYMBOL_UNITS, FALSE, FALSE)

\* (mutant of WORD_UNIT_REGEX: no whitespace before the unit)
WORD_UNIT_REGEX_unspaced(size) == UnitRegex(size, WORD_UNITS, FALSE, FALSE)

\* re.match(WORD_UNIT_REGEX, size, re.IGNORECASE)
WORD_UNIT_REGEX(size) == UnitRegex(size, WORD_UNITS, FALSE, TRUE)

\* What a call returns or raises.  ok: the call returned value; otherwise the
\* exception type, the fixed words of its message and the values it formats in.
Returned(v) == [ok |-> TRUE, value |-> v, type |-> "", text |-> "", args |-> <<>>]
Raised(type, text, args) ==
    [ok |-> FALSE, value |-> <<>>, type |-> type, text |-> text, args |-> args]

\* SizeUnit.normalized(size): the word grammar is tried first, then the symbol
\* grammar; the unit is looked up in NORMALIZED_UNIT as it was written in size
\* (cls.NORMALIZED_UNIT[unit] raises KeyError for a key the dict does not have).
SizeUnit_normalized(size) ==
    LET word   == WORD_UNIT_REGEX(size)
        symbol == SYMBOL_UNIT_REGEX(size)
        m      == IF word # {} THEN word ELSE symbol
        g      == CHOOSE g \in m : TRUE
        unit   == g[2]
    IN  IF m = {}
        THEN Raised("ValueError", "is not in a recognized size format.", <<size>>)
        ELSE IF unit \notin DOMAIN NORMALIZED_UNIT
             THEN Raised("KeyError", "", <<unit>>)
             ELSE Returned(<<g[1], NORMALIZED_UNIT[unit]>>)

(***************************************************************************)
(* carta.util.CoordinateUnit                                               *)
(***************************************************************************)
PIXEL_UNITS == {k \in DOMAIN NORMALIZED_UNIT : NORMALIZED_UNIT[k] = U_px}

DEGREE_UNITS == {k \in DOMAIN NORMALIZED_UNIT : NORMALIZED_UNIT[k] = U_deg}

PIXEL_UNIT_REGEX(coord) == UnitRegex(coord, PIXEL_UNITS, FALSE, TRUE)

\* ^-?(\d+(?:\.\d+)?)\s*(deg|degree|degrees)$ : the sign is outside group 1.
DEGREE_UNIT_REGEX(coord) == UnitRegex(coord, DEGREE_UNITS, TRUE, TRUE)

\* ^-?\d+(\.\d+)?$
DECIMAL_REGEX(coord) ==
    \E e \in Ends(coord) : IsNumber(Sub(coord, AfterSign(coord), e))

\* ^-?\d{0,hi}:\d{0,2}:(\d{1,2}(\.\d+)?)?$
ColonRegex(coord, hi) ==
    \E e \in Ends(coord) : \E p, q \in 1..e :
        /\ p < q
        /\ coord[p] = ":"
        /\ coord[q] = ":"
        /\ IsDigits(Sub(coord, AfterSign(coord), p - 1), 0, hi)
        /\ IsDigits(Sub(coord, p + 1, q - 1), 0, 2)
        /\ \/ q = e
           \/ IsDecimal(Sub(coord, q + 1, e), 1, 2)

\* (mutant of HMS_COLON_REGEX: the colons are optional)
HMS_COLON_REGEX_or_decimal(coord) == ColonRegex(coord, 2) \/ DECIMAL_REGEX(coord)

HMS_COLON_REGEX(coord) == ColonRegex(coord, 2)

\* \d* : the first field has no upper length.
DMS_COLON_REGEX(coord) == ColonRegex(coord, Len(coord))

\* (?:(body)letter)? : the set of values of the group; <<>> stands for None.
LetterPart(t, letter, signed, hi, fraction) ==
    IF t = <<>> THEN {<<>>}
    ELSE LET body == Sub(t, 1, Len(t) - 1)
             digits == IF signed THEN Sub(body, AfterSign(body), Len(body)) ELSE body
         IN  IF /\ Lower(t[Len(t)]) = letter
                /\ IF fraction THEN IsDecimal(digits, 1, hi) ELSE IsDigits(digits, 1, hi)
             THEN {body}
             ELSE {}

\* ^(?:(-?\d{1,hi})L)?(?:(\d{1,2})m)?(?:(\d{1,2}(?:\.\d+)?)s)?$ : the set of
\* m.groups() after empty_if_none; empty when re.match returns None.
LetterRegex(coord, letter, hi) ==
    LET first(a) == LetterPart(Sub(coord, 1, a), letter, TRUE, hi, FALSE)
        second(a, b) == LetterPart(Sub(coord, a + 1, b), "m", FALSE, 2, FALSE)
        third(b, e) == LetterPart(Sub(coord, b + 1, e), "s", FALSE, 2, TRUE)
    IN  UNION { UNION { UNION { first(a) \X second(a, b) \X third(b, e) :
                                e \in {e \in Ends(coord) : b <= e /\ third(b, e) # {}} } :
                        b \in {b \in a..Len(coord) : second(a, b) # {}} } :
                a \in {a \in 0..Len(coord) : first(a) # {}} }

\* (mutant of HMS_LETTER_REGEX: at least one part is needed)
HMS_LETTER_REGEX_some_part(coord) ==
    IF coord = <<>> THEN {} ELSE LetterRegex(coord, "h", 2)

HMS_LETTER_REGEX(coord) == LetterRegex(coord, "h", 2)

\* (-?\d+)d : the degrees field has no upper length.
DMS_LETTER_REGEX(coord) == LetterRegex(coord, "d", Len(coord))

\* CoordinateUnit.is_pixel(coord)
is_pixel(coord) == PIXEL_UNIT_REGEX(coord) # {}

\* CoordinateUnit.pixel_value(coord): m.group(1)
pixel_value(coord) ==
    LET m == PIXEL_UNIT_REGEX(coord)
    IN  IF m # {}
        THEN Returned((CHOOSE g \in m : TRUE)[1])
        ELSE Raised("ValueError", "could not be parsed as a pixel coordinate.", <<coord>>)

\* carta.constants.NumberFormat
NumberFormat == {"DEGREES", "HMS", "DMS"}

\* (mutant of JoinColon: a part that is left out leaves no colon)
JoinColon_parts_given(g) ==
    LET first == IF g[1] = <<>> \/ (g[2] = <<>> /\ g[3] = <<>>) THEN g[1] ELSE g[1] \o <<":">>
        second == IF g[2] = <<>> \/ g[3] = <<>> THEN g[2] ELSE g[2] \o <<":">>
    IN  first \o second \o g[3]

\* (mutant of JoinColon: minutes and seconds change places)
JoinColon_swapped(g) == g[1] \o <<":">> \o g[3] \o <<":">> \o g[2]

\* f"{H}:{M}:{S}"
JoinColon(g) == g[1] \o <<":">> \o g[2] \o <<":">> \o g[3]

\* ValueError(f"Coordinate {coord} does not match expected format {number_format}.")
FormatMismatch(coord, number_format) ==
    Raised("ValueError", "does not match expected format", <<coord, number_format>>)

\* CoordinateUnit.normalized(coord, number_format)
CoordinateUnit_normalized(coord, number_format) ==
    LET degree == DEGREE_UNIT_REGEX(coord)
        hms    == HMS_LETTER_REGEX(coord)
        dms    == DMS_LETTER_REGEX(coord)
    IN  CASE number_format = "DEGREES" ->
                IF DECIMAL_REGEX(coord) THEN Returned(coord)
                ELSE IF degree # {}
                     THEN Returned((CHOOSE g \in degree : TRUE)[1])
                     ELSE FormatMismatch(coord, number_format)
          [] number_format = "HMS" ->
                IF HMS_COLON_REGEX(coord) THEN Returned(coord)
                ELSE IF hms # {}
                     THEN Returned(JoinColon(CHOOSE g \in hms : TRUE))
                     ELSE FormatMismatch(coord, number_format)
          [] number_format = "DMS" ->
                IF DMS_COLON_REGEX(coord) THEN Returned(coord)
                ELSE IF dms # {}
                     THEN Returned(JoinColon(CHOOSE g \in dms : TRUE))
                     ELSE FormatMismatch(coord, number_format)

(***************************************************************************)
(* Python values: str(int), float(str)                                     *)
(***************************************************************************)
\* str(n) for a natural number n
RECURSIVE NatStr(_)
NatStr(n) ==
    IF n < 10 THEN <<DigitChars[n + 1]>>
    ELSE NatStr(n \div 10) \o <<DigitChars[(n % 10) + 1]>>

DigitValue(c) == (CHOOSE i \in DOMAIN DigitChars : DigitChars[i] = c) - 1

\* int(t) for a string of digits
RECURSIVE ParseNat(_)
ParseNat(t) ==
    IF t = <<>> THEN 0
    ELSE 10 * ParseNat(Sub(t, 1, Len(t) - 1)) + DigitValue(t[Len(t)])

RECURSIVE StripZeros(_)
StripZeros(t) ==
    IF t # <<>> /\ t[Len(t)] = "0" THEN StripZeros(Sub(t, 1, Len(t) - 1)) ELSE t

\* float(t) for t matching \d+(\.\d+)? : the integer part and the digits of the
\* fraction without trailing zeros, so that float("1.50") = float("1.5").
float(t) ==
    LET k == CHOOSE k \in 0..Len(t) :
                 /\ \A i \in 1..k : IsDigit(t[i])
                 /\ k = Len(t) \/ t[k + 1] = "."
    IN  [int |-> ParseNat(Sub(t, 1, k)), frac |-> StripZeros(Sub(t, k + 2, Len(t)))]

\* (mutant of InRange: 0 < f)
InRange_positive(f, n) == 0 < f.int /\ f.int < n

\* 0 <= f < n for a float f and an integer n
InRange(f, n) == 0 <= f.int /\ f.int < n

(***************************************************************************)
(* carta.validation (the rules the decorators of image.py name)            *)
(***************************************************************************)
ValidationFailed(param, value, descr) ==
    Raised("CartaValidationFailed", "Invalid function parameter", <<param, value, descr>>)

Valid == Returned(<<>>)

\* Coordinate(): a pixel coordinate or a world coordinate in one of the grammars
\* of CoordinateUnit.
Coordinate_validate(param, value) ==
    IF \/ is_pixel(value)
       \/ DECIMAL_REGEX(value)
       \/ DEGREE_UNIT_REGEX(value) # {}
       \/ HMS_COLON_REGEX(value)
       \/ HMS_LETTER_REGEX(value) # {}
       \/ DMS_COLON_REGEX(value)
       \/ DMS_LETTER_REGEX(value) # {}
    THEN Valid
    ELSE ValidationFailed(param, value, "a coordinate")

\* Size(): a size in one of the two grammars of SizeUnit.
Size_validate(param, value) ==
    IF WORD_UNIT_REGEX(value) # {} \/ SYMBOL_UNIT_REGEX(value) # {}
    THEN Valid
    ELSE ValidationFailed(param, value, "a size")

\* Number(min, max, interval, step).  Numbers are counted in halves, so that 1.5
\* is the number 3: v2 is twice the value.  min, max and step are integers.
Number_validate(param, v2, min, max, interval, step) ==
    IF (IF interval \in {"INCLUDE_MIN", "INCLUDE"} THEN v2 < 2 * min ELSE v2 <= 2 * min)
    THEN ValidationFailed(param, v2,
            IF interval \in {"INCLUDE_MIN", "INCLUDE"}
            THEN "must be greater or equal to" ELSE "must be greater than")
    ELSE IF (IF interval \in {"INCLUDE_MAX", "INCLUDE"} THEN v2 > 2 * max ELSE v2 >= 2 * max)
    THEN ValidationFailed(param, v2,
            IF interval \in {"INCLUDE_MAX", "INCLUDE"}
            THEN "must be smaller or equal to" ELSE "must be smaller than")
    ELSE IF (v2 - 2 * min) % (2 * step) # 0
    THEN ValidationFailed(param, v2, "not an increment of 1")
    ELSE Valid

\* carta.constants.CoordinateSystem (two of its members)
CoordinateSystem == {"FK5", "GALACTIC"}

None == "None"

\* NoneOr(Constant(CoordinateSystem))
NoneOrSystem_validate(param, value) ==
    IF value = None \/ value \in CoordinateSystem
    THEN Valid
    ELSE ValidationFailed(param, value, "None or a member of CoordinateSystem")

(***************************************************************************)
(* carta.session.Session: the session-wide coordinate system and number    *)
(* format, held by the frontend.                                           *)
(***************************************************************************)
\* The number formats the frontend uses for a coordinate system.
DefaultNumberFormat(system) ==
    IF system = "GALACTIC" THEN <<"DEGREES", "DEGREES">> ELSE <<"HMS", "DMS">>

\* Session.set_coordinate_system(system)
set_coordinate_system(sess, system) ==
    [system |-> system, number_format |-> DefaultNumberFormat(system)]

\* Session.number_format(): (number_format_x, number_format_y, _)
number_format(sess) == sess.number_format

(***************************************************************************)
(* State                                                                   *)
(***************************************************************************)
VARIABLES
    session,   \* the frontend's session-wide coordinate system and number format
    remote,    \* the frame's values in the frontend: width, height, depth, validWcs
    cache,     \* Image._cache: the properties read so far, by name
    last,      \* the outcome of the call the script made last, None when taken
    callers,   \* the calls of set_center that concurrent callers are in, by caller
    other      \* Image._cache of a second Image object of the same frame

vars == <<session, remote, cache, last, callers, other>>

(***************************************************************************)
(* carta.util.cached and the memoized properties of Image                  *)
(***************************************************************************)
Ev(kind, what) == <<kind, what>>

Action(name, args) == [name |-> name, args |-> args]

\* (mutant of cached: the value is read again at every use)
cached_refreshed(c, rem, name) == (name :> rem[name]) @@ c

\* self._cache after reading the property: func is called only for a name that
\* is not in the cache.
cached(c, rem, name) == IF name \in DOMAIN c THEN c ELSE (name :> rem[name]) @@ c

\* (mutant of fetched: the value is fetched whether it is cached or not)
fetched_always(c, name) == <<Ev("get_value", name)>>

\* The remote reads (get_value) that reading the property makes.
fetched(c, name) == IF name \in DOMAIN c THEN <<>> ELSE <<Ev("get_value", name)>>

\* What a method leaves behind: its result, the actions it dispatched on the
\* image and on the session, the steps it took in order, the session and the
\* cache after it, and the number formats it read (<<>> when it read none).
\* rules names the parameters whose rules were evaluated before it (see Validated).
Outcome(result, dispatched, session_actions, trace, sess, c, formats) ==
    [result |-> result, dispatched |-> dispatched, session_actions |-> session_actions,
     trace |-> trace, session |-> sess, cache |-> c, formats |-> formats, rules |-> <<>>]

\* validate(...): the rules are evaluated in order; the first failure is raised.
RECURSIVE validate(_)
validate(results) ==
    IF results = <<>> THEN Valid
    ELSE IF ~Head(results).ok THEN Head(results)
    ELSE validate(Tail(results))

\* The parameters whose rules validate evaluated: all of them up to the first
\* that failed.
RECURSIVE rules_evaluated(_, _)
rules_evaluated(params, results) ==
    IF results = <<>> THEN <<>>
    ELSE IF ~Head(results).ok THEN <<Head(params)>>
    ELSE <<Head(params)>> \o rules_evaluated(Tail(params), Tail(results))

\* The outcome of a method decorated with validate.
Validated(params, results, outcome) ==
    [outcome EXCEPT !.rules = rules_evaluated(params, results)]

(***************************************************************************)
(* Image.set_channel                                                        *)
(***************************************************************************)
\* Image.macro("", variable)
macro(variable) == <<"Macro", "frameMap[0]", variable>>

\* (mutant of set_channel_rule: the maximum is included)
set_channel_rule_inclusive(channel, depth) ==
    Number_validate("channel", channel, 0, depth, "INCLUDE", 1)

\* Evaluate(Number, 0, Attr("depth"), Number.INCLUDE_MIN, step=1)
set_channel_rule(channel, depth) ==
    Number_validate("channel", channel, 0, depth, "INCLUDE_MIN", 1)

\* channel is counted in halves (see Number_validate); a channel that passed the
\* rule is an integer and is dispatched as such.
set_channel(sess, c, rem, channel, recursive) ==
    LET c1 == cached(c, rem, "depth")
        t1 == fetched(c, "depth")
        v  == set_channel_rule(channel, c1["depth"])
    IN  Validated(<<"channel", "recursive">>, <<v, Valid>>,
            IF ~v.ok
            THEN Outcome(v, <<>>, <<>>, t1, sess, c1, <<>>)
            ELSE Outcome(Returned(None),
                         <<Action("setChannels",
                                  <<channel \div 2, macro("requiredStokes"), recursive>>)>>,
                         <<>>, t1 \o <<Ev("call_action", "setChannels")>>, sess, c1, <<>>))

(***************************************************************************)
(* Image.set_center                                                         *)
(***************************************************************************)
\* (mutant of set_center_system: a call without a system goes back to FK5)
set_center_system_or_default(sess, system) ==
    set_coordinate_system(sess, IF system # None THEN system ELSE "FK5")

\* (mutant of set_center_system: the system is not changed before the parse)
set_center_system_unchanged(sess, system) == sess

\* if system is not None: self.session.set_coordinate_system(system)
set_center_system(sess, system) ==
    IF system # None THEN set_coordinate_system(sess, system) ELSE sess

\* (mutant of is_mixed: only x is looked at)
is_mixed_x_only(x_is_pixel, y_is_pixel) == x_is_pixel

\* elif x_is_pixel or y_is_pixel (after: if x_is_pixel and y_is_pixel)
is_mixed(x_is_pixel, y_is_pixel) == x_is_pixel \/ y_is_pixel

\* (mutant of wcs_missing: the check is left out)
wcs_missing_unchecked(valid_wcs) == FALSE

\* if not self.valid_wcs
wcs_missing(valid_wcs) == ~valid_wcs

\* (mutant of unpack_number_format: the X format is used for both axes)
unpack_number_format_x_twice(nf) == [x |-> nf[1], y |-> nf[1]]

\* number_format_x, number_format_y, _ = self.session.number_format()
unpack_number_format(nf) == [x |-> nf[1], y |-> nf[2]]

\* The branch for two image coordinates.
set_center_pixel(sess, c, rem, x, y, sa, t) ==
    LET x_value == float(pixel_value(x).value)
        y_value == float(pixel_value(y).value)
        c1 == cached(c, rem, "width")
        t1 == t \o fetched(c, "width")
        x_in == InRange(x_value, c1["width"])
        \* "and" reads self.height only when x is in range; the message of the
        \* error reads both properties
        c2 == cached(c1, rem, "height")
        t2 == t1 \o fetched(c1, "height")
    IN  IF x_in /\ InRange(y_value, c2["height"])
        THEN Outcome(Returned(None), <<Action("setCenter", <<x_value, y_value>>)>>,
                     sa, t2 \o <<Ev("call_action", "setCenter")>>, sess, c2, <<>>)
        ELSE Outcome(Raised("ValueError", "are outside the bounds of the image",
                            <<x_value, y_value, c2["width"], c2["height"]>>),
                     <<>>, sa, t2, sess, c2, <<>>)

\* (mutant of set_center_world: the action is dispatched when x is normalized,
\* before y is)
set_center_world_dispatch_first(sess, c, rem, x, y, sa, t) ==
    LET c1 == cached(c, rem, "valid_wcs")
        t1 == t \o fetched(c, "valid_wcs")
        nf == unpack_number_format(number_format(sess))
        x_value == CoordinateUnit_normalized(x, nf.x)
        y_value == CoordinateUnit_normalized(y, nf.y)
        t3 == t1 \o <<Ev("number_format", ""), Ev("normalized", "x")>>
        sent == <<Action("setCenterWcs", <<x_value.value, y_value.value>>)>>
        t4 == t3 \o <<Ev("call_action", "setCenterWcs"), Ev("normalized", "y")>>
    IN  IF wcs_missing(c1["valid_wcs"])
        THEN Outcome(Raised("ValueError",
                            "Cannot parse world coordinates. This image does not contain valid WCS information.",
                            <<>>),
                     <<>>, sa, t1, sess, c1, <<>>)
        ELSE IF ~x_value.ok THEN Outcome(x_value, <<>>, sa, t3, sess, c1, <<nf.x, nf.y>>)
        ELSE IF ~y_value.ok THEN Outcome(y_value, sent, sa, t4, sess, c1, <<nf.x, nf.y>>)
        ELSE Outcome(Returned(None), sent, sa, t4, sess, c1, <<nf.x, nf.y>>)

\* The branch for two world coordinates.
set_center_world(sess, c, rem, x, y, sa, t) ==
    LET c1 == cached(c, rem, "valid_wcs")
        t1 == t \o fetched(c, "valid_wcs")
        nf == unpack_number_format(number_format(sess))
        t2 == t1 \o <<Ev("number_format", "")>>
        x_value == CoordinateUnit_normalized(x, nf.x)
        t3 == t2 \o <<Ev("normalized", "x")>>
        y_value == CoordinateUnit_normalized(y, nf.y)
        t4 == t3 \o <<Ev("normalized", "y")>>
    IN  IF wcs_missing(c1["valid_wcs"])
        THEN Outcome(Raised("ValueError",
                            "Cannot parse world coordinates. This image does not contain valid WCS information.",
                            <<>>),
                     <<>>, sa, t1, sess, c1, <<>>)
        ELSE IF ~x_value.ok THEN Outcome(x_value, <<>>, sa, t3, sess, c1, <<nf.x, nf.y>>)
        ELSE IF ~y_value.ok THEN Outcome(y_value, <<>>, sa, t4, sess, c1, <<nf.x, nf.y>>)
        ELSE Outcome(Returned(None),
                     <<Action("setCenterWcs", <<x_value.value, y_value.value>>)>>,
                     sa, t4 \o <<Ev("call_action", "setCenterWcs")>>, sess, c1,
                     <<nf.x, nf.y>>)

\* (mutant of set_center_rules: x is not checked)
set_center_rules_x_unchecked(x, y, system) ==
    <<Valid, Coordinate_validate("y", y), NoneOrSystem_validate("system", system)>>

\* @validate(Coordinate(), Coordinate(), NoneOr(Constant(CoordinateSystem)))
set_center_rules(x, y, system) ==
    <<Coordinate_validate("x", x), Coordinate_validate("y", y),
      NoneOrSystem_validate("system", system)>>

\* (mutant of set_center: the system is changed on the way to the world
\* coordinates only)
set_center_system_for_world(sess, c, rem, x, y, system) ==
    LET rules == set_center_rules(x, y, system)
        v  == validate(rules)
        s1 == set_center_system(sess, system)
        sa == IF system # None
              THEN <<Action("overlayStore.global.setSystem", <<system>>)>> ELSE <<>>
        t0 == <<Ev("is_pixel", "x"), Ev("is_pixel", "y")>>
        t1 == IF system # None THEN <<Ev("set_coordinate_system", system)>> ELSE <<>>
    IN  Validated(<<"x", "y", "system">>, rules,
            IF ~v.ok THEN Outcome(v, <<>>, <<>>, <<>>, sess, c, <<>>)
            ELSE IF is_pixel(x) /\ is_pixel(y)
            THEN set_center_pixel(sess, c, rem, x, y, <<>>, t0)
            ELSE IF is_mixed(is_pixel(x), is_pixel(y))
            THEN Outcome(Raised("ValueError", "Cannot mix image and world coordinates.", <<>>),
                         <<>>, <<>>, t0, sess, c, <<>>)
            ELSE set_center_world(s1, c, rem, x, y, sa, t0 \o t1))

\* def set_center(self, x, y, system=None)
set_center(sess, c, rem, x, y, system) ==
    LET rules == set_center_rules(x, y, system)
        v  == validate(rules)
        s1 == set_center_system(sess, system)
        sa == IF system # None
              THEN <<Action("overlayStore.global.setSystem", <<system>>)>> ELSE <<>>
        t1 == IF system # None THEN <<Ev("set_coordinate_system", system)>> ELSE <<>>
        x_is_pixel == is_pixel(x)
        y_is_pixel == is_pixel(y)
        t2 == t1 \o <<Ev("is_pixel", "x"), Ev("is_pixel", "y")>>
    IN  Validated(<<"x", "y", "system">>, rules,
            IF ~v.ok THEN Outcome(v, <<>>, <<>>, <<>>, sess, c, <<>>)
            ELSE IF x_is_pixel /\ y_is_pixel THEN set_center_pixel(s1, c, rem, x, y, sa, t2)
            ELSE IF is_mixed(x_is_pixel, y_is_pixel)
            THEN Outcome(Raised("ValueError", "Cannot mix image and world coordinates.", <<>>),
                         <<>>, sa, t2, s1, c, <<>>)
            ELSE set_center_world(s1, c, rem, x, y, sa, t2))

(***************************************************************************)
(* Image.zoom_to_size_x, Image.zoom_to_size_y                               *)
(***************************************************************************)
\* (mutant of is_px: compared with "pixel")
is_px_pixel(unit) == unit = U_pixel

\* if x_unit == "px"
is_px(unit) == unit = U_px

\* dim is "X" or "Y": the two methods differ in the names of their actions only.
zoom_to_size(sess, c, rem, dim, size) ==
    LET rules == <<Size_validate("size", size)>>
        v  == validate(rules)
        n  == SizeUnit_normalized(size)
        t1 == <<Ev("normalized", "size")>>
        c1 == cached(c, rem, "valid_wcs")
        t2 == t1 \o fetched(c, "valid_wcs")
        pixel_action == IF dim = "X" THEN "zoomToSizeX" ELSE "zoomToSizeY"
        world_action == IF dim = "X" THEN "zoomToSizeXWcs" ELSE "zoomToSizeYWcs"
    IN  Validated(<<"size">>, rules,
            IF ~v.ok THEN Outcome(v, <<>>, <<>>, <<>>, sess, c, <<>>)
            ELSE IF ~n.ok THEN Outcome(n, <<>>, <<>>, t1, sess, c, <<>>)
            ELSE IF is_px(n.value[2])
            THEN Outcome(Returned(None), <<Action(pixel_action, <<float(n.value[1])>>)>>,
                         <<>>, t1 \o <<Ev("call_action", pixel_action)>>, sess, c, <<>>)
            ELSE IF wcs_missing(c1["valid_wcs"])
            THEN Outcome(Raised("ValueError",
                                "Cannot parse angular size. This image does not contain valid WCS information.",
                                <<>>),
                         <<>>, <<>>, t2, sess, c1, <<>>)
            ELSE Outcome(Returned(None),
                         <<Action(world_action, <<n.value[1] \o n.value[2]>>)>>,
                         <<>>, t2 \o <<Ev("call_action", world_action)>>, sess, c1, <<>>))

zoom_to_size_x(sess, c, rem, size) == zoom_to_size(sess, c, rem, "X", size)

zoom_to_size_y(sess, c, rem, size) == zoom_to_size(sess, c, rem, "Y", size)

(***************************************************************************)
(* Image.plot_contours and the methods it calls.  Each returns the actions  *)
(* it dispatches on the image, in order.  The arguments are values that     *)
(* pass the rules of the decorators, written as the script writes them; a   *)
(* parameter that is not given is None.                                     *)
(***************************************************************************)
\* Image.macro(target, variable) for a target that is not empty
macro_target(target, variable) == <<"Macro", "frameMap[0]." \o target, variable>>

\* Image.configure_contours(levels, smoothing_mode, smoothing_factor)
configure_contours(levels, smoothing_mode, smoothing_factor) ==
    <<Action("contourConfig.setContourConfiguration",
             <<IF levels = None THEN macro_target("contourConfig", "levels")
               ELSE <<levels>>,
               IF smoothing_mode = None THEN macro_target("contourConfig", "smoothingMode")
               ELSE <<smoothing_mode>>,
               IF smoothing_factor = None
               THEN macro_target("contourConfig", "smoothingFactor")
               ELSE <<smoothing_factor>> >>)>>

\* Image.set_contour_dash(dash_mode, thickness)
set_contour_dash(dash_mode, thickness) ==
    (IF dash_mode # None THEN <<Action("contourConfig.setDashMode", <<dash_mode>>)>>
     ELSE <<>>)
    \o (IF thickness # None THEN <<Action("contourConfig.setThickness", <<thickness>>)>>
        ELSE <<>>)

\* Image.set_contour_color(color)
set_contour_color(color) ==
    <<Action("contourConfig.setColor", <<color>>),
      Action("contourConfig.setColormapEnabled", <<FALSE>>)>>

\* Image.set_contour_colormap(colormap, bias, contrast)
set_contour_colormap(colormap, bias, contrast) ==
    <<Action("contourConfig.setColormap", <<colormap>>),
      Action("contourConfig.setColormapEnabled", <<TRUE>>)>>
    \o (IF bias # None THEN <<Action("contourConfig.setColormapBias", <<bias>>)>>
        ELSE <<>>)
    \o (IF contrast # None THEN <<Action("contourConfig.setColormapContrast", <<contrast>>)>>
        ELSE <<>>)

\* Image.apply_contours()
apply_contours == <<Action("applyContours", <<>>)>>

\* (mutant of plot_contours: the colour is set after the colourmap)
plot_contours_color_last(levels, smoothing_mode, smoothing_factor, dash_mode, thickness, color, colormap, bias, contrast) ==
    configure_contours(levels, smoothing_mode, smoothing_factor)
        \o set_contour_dash(dash_mode, thickness)
        \o (IF colormap # None THEN set_contour_colormap(colormap, bias, contrast) ELSE <<>>)
        \o (IF color # None THEN set_contour_color(color) ELSE <<>>)
        \o apply_contours

\* Image.plot_contours(levels, smoothing_mode, smoothing_factor, dash_mode,
\*                     thickness, color, colormap, bias, contrast)
plot_contours(levels, smoothing_mode, smoothing_factor, dash_mode, thickness, color, colormap, bias, contrast) ==
    configure_contours(levels, smoothing_mode, smoothing_factor)
        \o set_contour_dash(dash_mode, thickness)
        \o (IF color # None THEN set_contour_color(color) ELSE <<>>)
        \o (IF colormap # None THEN set_contour_colormap(colormap, bias, contrast) ELSE <<>>)
        \o apply_contours

(***************************************************************************)
(* Bounds and the arguments the calls are made with                        *)
(***************************************************************************)
MaxExtent == 2   \* image widths and heights are 1..MaxExtent, pixels 0..MaxExtent
MaxDepth == 2    \* image depths are 1..MaxDepth
MaxSize == 1     \* whole size magnitudes are 0..MaxSize
MaxDegree == 1   \* whole coordinates in degrees are 0..MaxDegree

\* Pixel coordinates with the numbers they stand for: "0px", "1px", ..., and
\* "1.5 pixels", "0PX".
PixelCoordValues ==
    {[str |-> NatStr(n) \o U_px, int |-> n, frac |-> <<>>] : n \in 0..MaxExtent}
        \cup {[str |-> <<"1", ".", "5", " ">> \o U_pixels, int |-> 1, frac |-> <<"5">>],
              [str |-> <<"0", "P", "X">>, int |-> 0, frac |-> <<>>]}

PixelCoords == {p.str : p \in PixelCoordValues}

\* World coordinates: "5", "5 deg", "1:2:3", "1h2m3.5s", "1d2m"
WorldCoords ==
    {<<"5">>, <<"5", " ">> \o U_deg, <<"1", ":", "2", ":", "3">>,
     <<"1", "h", "2", "m", "3", ".", "5", "s">>, <<"1", "d", "2", "m">>}

\* Strings that are in no grammar: "abc", "-5px"
OtherCoords == {<<"a", "b", "c">>, <<"-", "5">> \o U_px}

CoordArgs == PixelCoords \cup WorldCoords \cup OtherCoords

SystemArgs == CoordinateSystem \cup {None}

\* Decimal magnitudes with the numbers they stand for: "0", "1", ..., "123", "1.5"
MagnitudeValues ==
    {[str |-> NatStr(n), int |-> n, frac |-> <<>>] : n \in 0..MaxSize}
        \cup {[str |-> <<"1", "2", "3">>, int |-> 123, frac |-> <<>>],
              [str |-> <<"1", ".", "5">>, int |-> 1, frac |-> <<"5">>]}

Magnitudes == {m.str : m \in MagnitudeValues}

\* Unit words in another letter case: "PX", "Deg", "ArcMin"
MixedCaseUnits == {<<"P", "X">>, <<"D", "e", "g">>, <<"A", "r", "c", "M", "i", "n">>}

\* A magnitude followed by whitespace alone: "123 ", "123\t", "123\n"
TrailingSpaceSizes == {<<"1", "2", "3", w>> : w \in {" ", "\t", "\n"}}

SizeArgs ==
    {m \o u : m \in Magnitudes, u \in DOMAIN NORMALIZED_UNIT}
        \cup TrailingSpaceSizes
        \cup {<<"1", "2", "3">> \o w \o u :
                w \in {<<>>, <<" ">>},
                u \in MixedCaseUnits \cup {U_deg, U_px, U_quote, U_dquote, U_none}}
        \cup {<<"a", "b", "c">>}

\* Channels, in halves: -2, -1.5, ..., MaxDepth + 1
ChannelArgs == (0 - 4)..(2 * MaxDepth + 2)

\* Arguments for the calls that validation decides: "abc", "-5px", "1px", "5"
ValidateCoords == OtherCoords \cup {<<"1">> \o U_px, <<"5">>}

\* "B1950" stands for a value that is no member of CoordinateSystem.
ValidateSystems == SystemArgs \cup {"B1950"}

ValidateSizes == {<<"a", "b", "c">>, <<"1">> \o U_px, <<"1">>}

\* Decimals without a sign: "0", "1", ..., "45", "123", "1.5"
Decimals ==
    {NatStr(n) : n \in 0..MaxDegree} \cup {<<"4", "5">>, <<"1", "2", "3">>, <<"1", ".", "5">>}

\* A decimal with its sign
Signed(sign, n) == sign \o n

Signs == {<<>>, <<"-">>}

SignedDecimals == {Signed(sign, n) : sign \in Signs, n \in Decimals}

\* A signed decimal, whitespace or none, and a degree unit or the same in upper
\* case
DegreeSpellings == DEGREE_UNITS \cup {<<"D", "E", "G">>}

DegreeCoords ==
    {n \o w \o u : n \in SignedDecimals, w \in {<<>>, <<" ">>}, u \in DegreeSpellings}

\* Colon-delimited forms that are in the grammar of HMS and of DMS
ColonCoords ==
    {<<"1", "2", ":", "3", "4", ":", "5", "6", ".", "7", "8", "9">>, <<"1", ":", "2", ":", "3">>, <<"-", "1", ":", "2", ":", "3">>, <<":", ":">>, <<"1", ":", "2", ":">>}

\* "123:4:5" is in the colon grammar of DMS only
LongColonCoords == {<<"1", "2", "3", ":", "4", ":", "5">>}

\* The parts of a letter-delimited form: <<>> is a part that is left out.
FirstParts == {<<>>, <<"1", "2">>, <<"-", "1">>}

MinuteParts == {<<>>, <<"3", "4">>, <<"3", "0">>}

SecondParts == {<<>>, <<"5", "6", ".", "7", "8", "9">>, <<"3">>}

LetterField(part, letter) == IF part = <<>> THEN <<>> ELSE part \o <<letter>>

\* "12h34m56.789s", "12h30m", "-1h3s", "", ... for letter "h"; "d" likewise
LetterForm(first, minute, second, letter) ==
    LetterField(first, letter) \o LetterField(minute, "m") \o LetterField(second, "s")

LetterCoords(letter) ==
    {LetterForm(f, m, sec, letter) : f \in FirstParts, m \in MinuteParts, sec \in SecondParts}

\* Strings in no grammar of any number format: "abc", "5px", "1h2d", "1:2"
NoCoords == {<<"a", "b", "c">>, <<"5", "p", "x">>, <<"1", "h", "2", "d">>, <<"1", ":", "2">>}

CoordStrings ==
    SignedDecimals \cup DegreeCoords \cup ColonCoords \cup LongColonCoords
        \cup LetterCoords("h") \cup LetterCoords("d") \cup NoCoords

\* The (x, y) of the concurrent calls: ("5", "5"), ("1:2:3", "1:2:3"),
\* ("5", "0px"), ("0px", "0px")
RacePairs ==
    {<<<<"5">>, <<"5">>>>, <<<<"1", ":", "2", ":", "3">>, <<"1", ":", "2", ":", "3">>>>,
      <<<<"5">>, <<"0", "p", "x">>>>, <<<<"0", "p", "x">>, <<"0", "p", "x">>>>}

\* The arguments of plot_contours, in the order of its parameters: each is
\* left out or is one value that passes its rule.
ContourArgs ==
    {None, "[1.0, 2.5]"} \X {None, "GaussianBlur"} \X {None, "4"} \X {None, "Dashed"}
        \X {None, "2"} \X {None, "red"} \X {None, "viridis"} \X {None, "0.5"}
        \X {None, "1.5"}

(***************************************************************************)
(* Initial states                                                          *)
(***************************************************************************)
\* The session: a coordinate system with its number formats.
Sessions ==
    {[system |-> sys, number_format |-> DefaultNumberFormat(sys)] : sys \in CoordinateSystem}

NoCall ==
    [op |-> "none", args |-> <<>>, result |-> Returned(None), dispatched |-> <<>>,
     session_actions |-> <<>>, trace |-> <<>>, formats |-> <<>>, rules |-> <<>>,
     entry |-> [system |-> None, number_format |-> <<>>]]

Frames(widths, heights, depths, wcs) ==
    {[width |-> w, height |-> h, depth |-> d, valid_wcs |-> v] :
        w \in widths, h \in heights, d \in depths, v \in wcs}

\* The concurrent callers of set_center
Callers == {1, 2}

\* A caller that is in no call
Idle ==
    [pc |-> "idle", x |-> <<>>, y |-> <<>>, system |-> None, formats |-> <<>>,
     result |-> Returned(None), dispatched |-> <<>>]

\* Image.__init__: nothing is cached, nobody is in a call.
InitImage ==
    /\ cache = [n \in {} |-> None]
    /\ last = NoCall
    /\ callers = [c \in Callers |-> Idle]
    /\ other = [n \in {} |-> None]

Init ==
    /\ session \in Sessions
    /\ remote \in Frames(1..MaxExtent, 1..MaxExtent, {MaxDepth}, BOOLEAN)
    /\ InitImage

InitZoom ==
    /\ session \in Sessions
    /\ remote \in Frames({MaxExtent}, {MaxExtent}, {MaxDepth}, BOOLEAN)
    /\ InitImage

InitChannel ==
    /\ session \in Sessions
    /\ remote \in Frames({MaxExtent}, {MaxExtent}, 1..MaxDepth, BOOLEAN)
    /\ InitImage

(***************************************************************************)
(* Actions: the script calls a method of the image, the method runs to its  *)
(* return or its exception; the script then takes the outcome.             *)
(***************************************************************************)
Call(op, args, outcome) ==
    /\ last.op = "none"
    /\ \E r \in {outcome} :
        /\ session' = r.session
        /\ cache' = r.cache
        /\ last' = [op |-> op, args |-> args, result |-> r.result,
                    dispatched |-> r.dispatched, session_actions |-> r.session_actions,
                    trace |-> r.trace, formats |-> r.formats, rules |-> r.rules,
                    entry |-> session]
    /\ UNCHANGED <<remote, callers, other>>

SetChannel(channel, recursive) ==
    Call("set_channel", <<channel, recursive>>,
         set_channel(session, cache, remote, channel, recursive))

SetCenter(x, y, system) ==
    Call("set_center", <<x, y, system>>, set_center(session, cache, remote, x, y, system))

ZoomToSizeX(size) ==
    Call("zoom_to_size_x", <<size>>, zoom_to_size_x(session, cache, remote, size))

ZoomToSizeY(size) ==
    Call("zoom_to_size_y", <<size>>, zoom_to_size_y(session, cache, remote, size))

\* SizeUnit.normalized called on its own.
SizeNormalized(size) ==
    Call("SizeUnit.normalized", <<size>>,
         Outcome(SizeUnit_normalized(size), <<>>, <<>>, <<>>, session, cache, <<>>))

\* CoordinateUnit.normalized called on its own.
CoordNormalized(coord, fmt) ==
    Call("CoordinateUnit.normalized", <<coord, fmt>>,
         Outcome(CoordinateUnit_normalized(coord, fmt), <<>>, <<>>, <<>>, session, cache, <<>>))

\* CoordinateUnit.normalized called on the string it returned, with the same
\* number format: the trace keeps the string the first call returned.
CoordNormalizedAgain ==
    /\ last.op = "CoordinateUnit.normalized"
    /\ last.result.ok
    /\ last' = [last EXCEPT
                  !.op = "CoordinateUnit.normalized twice",
                  !.result = CoordinateUnit_normalized(last.result.value, last.args[2]),
                  !.trace = <<Ev("returned", last.result.value)>>]
    /\ UNCHANGED <<session, remote, cache, callers, other>>

PlotContours(a) ==
    Call("plot_contours", a,
         Outcome(Returned(None),
                 plot_contours(a[1], a[2], a[3], a[4], a[5], a[6], a[7], a[8], a[9]),
                 <<>>, <<>>, session, cache, <<>>))

\* The script takes the outcome of its last call.
Discard ==
    /\ last.op # "none"
    /\ last' = NoCall
    /\ UNCHANGED <<session, remote, cache, callers, other>>

\* The frame's depth in the frontend becomes another one between two calls.
DepthChanges ==
    /\ last.op = "none"
    /\ \E d \in (1..MaxDepth) \ {remote.depth} : remote' = [remote EXCEPT !.depth = d]
    /\ UNCHANGED <<session, cache, last, callers, other>>

(***************************************************************************)
(* set_center called by concurrent callers on one session and one image:   *)
(* each caller runs the method in steps, and the steps of the callers      *)
(* interleave.  The session is written by set_coordinate_system and read   *)
(* by number_format; the method takes no lock.                             *)
(***************************************************************************)
Finished(result, dispatched) ==
    [Idle EXCEPT !.pc = "done", !.result = result, !.dispatched = dispatched]

\* The caller enters set_center: the decorator validates the arguments.
RaceCall(c, x, y, system) ==
    /\ callers[c].pc = "idle"
    /\ LET v == validate(set_center_rules(x, y, system))
       IN  callers' = [callers EXCEPT ![c] =
                IF v.ok
                THEN [Idle EXCEPT !.pc = "entered", !.x = x, !.y = y, !.system = system]
                ELSE [Finished(v, <<>>) EXCEPT !.x = x, !.y = y, !.system = system]]
    /\ UNCHANGED <<session, remote, cache, last, other>>

\* (mutant of RaceSetSystem: the change waits while another caller is between
\* its own change and its read of the number format)
RaceSetSystem_locked(c) ==
    /\ callers[c].pc = "entered"
    /\ \A o \in Callers \ {c} : callers[o].pc \notin {"classify", "read_format"}
    /\ session' = set_center_system(session, callers[c].system)
    /\ callers' = [callers EXCEPT ![c].pc = "classify"]
    /\ UNCHANGED <<remote, cache, last, other>>

\* if system is not None: self.session.set_coordinate_system(system)
RaceSetSystem(c) ==
    /\ callers[c].pc = "entered"
    /\ session' = set_center_system(session, callers[c].system)
    /\ callers' = [callers EXCEPT ![c].pc = "classify"]
    /\ UNCHANGED <<remote, cache, last, other>>

\* The coordinates are classified.  Two image coordinates, a mix, and world
\* coordinates on an image without WCS end the call here, and none of them
\* looks at the session: they end as the method ends them without a system.
\* World coordinates on an image with WCS go on to read the number format.
RaceClassify(c) ==
    /\ callers[c].pc = "classify"
    /\ LET x == callers[c].x
           y == callers[c].y
           rest == set_center(session, cache, remote, x, y, None)
           c1 == cached(cache, remote, "valid_wcs")
       IN  IF ~is_pixel(x) /\ ~is_pixel(y) /\ ~wcs_missing(c1["valid_wcs"])
           THEN /\ cache' = c1
                /\ callers' = [callers EXCEPT ![c].pc = "read_format"]
           ELSE /\ cache' = rest.cache
                /\ callers' = [callers EXCEPT ![c] =
                        [Finished(rest.result, rest.dispatched) EXCEPT
                            !.x = x, !.y = y, !.system = callers[c].system]]
    /\ UNCHANGED <<session, remote, last, other>>

\* number_format_x, number_format_y, _ = self.session.number_format()
RaceReadFormat(c) ==
    /\ callers[c].pc = "read_format"
    /\ LET nf == unpack_number_format(number_format(session))
       IN  callers' = [callers EXCEPT ![c].pc = "normalize", ![c].formats = <<nf.x, nf.y>>]
    /\ UNCHANGED <<session, remote, cache, last, other>>

\* The two coordinates are normalized against the formats that were read, and
\* the action is dispatched.
RaceNormalize(c) ==
    /\ callers[c].pc = "normalize"
    /\ LET read == [session EXCEPT !.number_format = callers[c].formats]
           o == set_center_world(read, cache, remote, callers[c].x, callers[c].y, <<>>, <<>>)
       IN  callers' = [callers EXCEPT ![c].pc = "done", ![c].result = o.result,
                                      ![c].dispatched = o.dispatched]
    /\ UNCHANGED <<session, remote, cache, last, other>>

\* The caller takes the outcome of its call.
RaceReturn(c) ==
    /\ callers[c].pc = "done"
    /\ callers' = [callers EXCEPT ![c] = Idle]
    /\ UNCHANGED <<session, remote, cache, last, other>>

NextRace ==
    \E c \in Callers :
        \/ \E p \in RacePairs, system \in SystemArgs : RaceCall(c, p[1], p[2], system)
        \/ RaceSetSystem(c)
        \/ RaceClassify(c)
        \/ RaceReadFormat(c)
        \/ RaceNormalize(c)
        \/ RaceReturn(c)

(***************************************************************************)
(* The memoized properties read by a script, on two Image objects of the   *)
(* same frame, while the values in the frontend change.                    *)
(***************************************************************************)
\* The properties the script reads
PropertyNames == {"depth", "valid_wcs"}

\* image.<name> on the first (object = 1) or the second Image object
ReadProperty(object, name) ==
    /\ last.op = "none"
    /\ LET c == IF object = 1 THEN cache ELSE other
           c1 == cached(c, remote, name)
       IN  /\ cache' = IF object = 1 THEN c1 ELSE cache
           /\ other' = IF object = 1 THEN other ELSE c1
           /\ last' = [NoCall EXCEPT !.op = "property", !.args = <<object, name>>,
                                     !.result = Returned(c1[name]),
                                     !.trace = fetched(c, name)]
    /\ UNCHANGED <<session, remote, callers>>

\* The frame's validWcs in the frontend becomes the other value.
WcsChanges ==
    /\ last.op = "none"
    /\ remote' = [remote EXCEPT !.valid_wcs = ~remote.valid_wcs]
    /\ UNCHANGED <<session, cache, last, callers, other>>

NextCached ==
    \/ \E object \in {1, 2}, name \in PropertyNames : ReadProperty(object, name)
    \/ DepthChanges
    \/ WcsChanges
    \/ Discard

NextCenter ==
    \/ \E x, y \in CoordArgs, system \in SystemArgs : SetCenter(x, y, system)
    \/ Discard

NextZoom ==
    \/ \E size \in SizeArgs : ZoomToSizeX(size)
    \/ \E size \in SizeArgs : ZoomToSizeY(size)
    \/ \E size \in SizeArgs : SizeNormalized(size)
    \/ Discard

NextChannel ==
    \/ \E channel \in ChannelArgs, recursive \in BOOLEAN : SetChannel(channel, recursive)
    \/ Discard

NextValidate ==
    \/ \E x, y \in ValidateCoords, system \in ValidateSystems : SetCenter(x, y, system)
    \/ \E size \in ValidateSizes : ZoomToSizeX(size)
    \/ \E size \in ValidateSizes : ZoomToSizeY(size)
    \/ Discard

NextDepth ==
    \/ \E channel \in ChannelArgs, recursive \in BOOLEAN : SetChannel(channel, recursive)
    \/ DepthChanges
    \/ Discard

NextCoord ==
    \/ \E coord \in CoordStrings, fmt \in NumberFormat : CoordNormalized(coord, fmt)
    \/ Discard

NextTwice ==
    \/ \E coord \in CoordStrings, fmt \in NumberFormat : CoordNormalized(coord, fmt)
    \/ CoordNormalizedAgain
    \/ Discard

NextContours ==
    \/ \E a \in ContourArgs : PlotContours(a)
    \/ Discard

\* The three methods that move the view, called one after another
NextView ==
    \/ \E x, y \in CoordArgs, system \in SystemArgs : SetCenter(x, y, system)
    \/ \E size \in SizeArgs : ZoomToSizeX(size)
    \/ \E size \in SizeArgs : ZoomToSizeY(size)
    \/ Discard

Spec == Init /\ [][NextCenter]_vars

SpecView == InitZoom /\ [][NextView]_vars

SpecTwice == InitZoom /\ [][NextTwice]_vars

SpecContours == InitZoom /\ [][NextContours]_vars

SpecCached == InitChannel /\ [][NextCached]_vars

SpecRace == InitZoom /\ [][NextRace]_vars

SpecCoord == InitZoom /\ [][NextCoord]_vars

SpecDepth == InitChannel /\ [][NextDepth]_vars

SpecValidate == InitZoom /\ [][NextValidate]_vars

SpecZoom == InitZoom /\ [][NextZoom]_vars

SpecChannel == InitChannel /\ [][NextChannel]_vars

(***************************************************************************)
(* Properties                                                              *)
(***************************************************************************)
\* The value self.<name> has for the script: the cached value if there is one.
Attr(name) == IF name \in DOMAIN cache THEN cache[name] ELSE remote[name]

Float(v) == [int |-> v.int, frac |-> v.frac]

HasEvent(kind) == \E i \in DOMAIN last.trace : last.trace[i][1] = kind

MixedUnitsError ==
    Raised("ValueError", "Cannot mix image and world coordinates.", <<>>)

MissingWcsError ==
    Raised("ValueError",
           "Cannot parse world coordinates. This image does not contain valid WCS information.",
           <<>>)

\* C1: for every pair of pixel coordinates (x, y) with 0 <= x < width and
\* 0 <= y < height, set_center dispatches exactly the action "setCenter" with
\* (float(x), float(y)), and so never "setCenterWcs".
C1_PixelCenterDispatched ==
    \A p, q \in PixelCoordValues, sys \in SystemArgs :
        ( /\ last.op = "set_center"
          /\ last.args = <<p.str, q.str, sys>>
          /\ 0 <= p.int /\ p.int < Attr("width")
          /\ 0 <= q.int /\ q.int < Attr("height") )
        => /\ last.result = Returned(None)
           /\ last.dispatched = <<Action("setCenter", <<Float(p), Float(q)>>)>>

\* A call with "1.5 pixels" and "0PX" on an image wide enough has dispatched.
C1_Witness ==
    /\ last.op = "set_center"
    /\ last.args[1] = <<"1", ".", "5", " ">> \o U_pixels
    /\ last.args[2] = <<"0", "P", "X">>
    /\ Attr("width") = 2
    /\ last.dispatched # <<>>

NegativePixel == [str |-> <<"-", "5">> \o U_px, int |-> 0 - 5, frac |-> <<>>]

\* C3: for every pair of pixel coordinates with x >= width, or y >= height, or a
\* negative x or y ("-5px"), set_center fails with the bounds error whose message
\* names the point and the extent of the image, and nothing is dispatched.
C3_OutOfBoundsRejected ==
    \A p, q \in PixelCoordValues \cup {NegativePixel}, sys \in SystemArgs :
        ( /\ last.op = "set_center"
          /\ last.args = <<p.str, q.str, sys>>
          /\ \/ p.int >= Attr("width")
             \/ q.int >= Attr("height")
             \/ p.int < 0
             \/ q.int < 0 )
        => /\ last.result =
                Raised("ValueError", "are outside the bounds of the image",
                       <<Float(p), Float(q), Attr("width"), Attr("height")>>)
           /\ last.dispatched = <<>>

\* C4: every call of set_center with two world coordinates on an image whose
\* valid_wcs is false fails with the missing-WCS error, before the number format
\* of the session is read and before a coordinate is parsed, and dispatches
\* nothing.
C4_MissingWcsRejected ==
    \A x, y \in WorldCoords, sys \in SystemArgs :
        ( /\ last.op = "set_center"
          /\ last.args = <<x, y, sys>>
          /\ ~Attr("valid_wcs") )
        => /\ last.result = MissingWcsError
           /\ last.formats = <<>>
           /\ ~HasEvent("number_format")
           /\ ~HasEvent("normalized")
           /\ last.dispatched = <<>>

\* A world call with a system on an image without WCS was rejected.
C4_Witness ==
    /\ last.op = "set_center"
    /\ last.args[1] \in WorldCoords
    /\ last.args[2] \in WorldCoords
    /\ last.args[3] # None
    /\ last.result = MissingWcsError

\* C5: with two world coordinates and valid_wcs true, set_center normalizes x
\* against the X number format of the session and y against the Y number format,
\* and dispatches "setCenterWcs" with the two normalized strings; if x or y does
\* not match the format of its own axis the call fails with the format error and
\* dispatches nothing.
C5_WorldCenterDispatched ==
    \A x, y \in WorldCoords, sys \in SystemArgs :
        ( /\ last.op = "set_center"
          /\ last.args = <<x, y, sys>>
          /\ Attr("valid_wcs") )
        => LET nx == CoordinateUnit_normalized(x, session.number_format[1])
               ny == CoordinateUnit_normalized(y, session.number_format[2])
           IN  /\ (nx.ok /\ ny.ok)
                    => /\ last.result = Returned(None)
                       /\ last.dispatched =
                            <<Action("setCenterWcs", <<nx.value, ny.value>>)>>
               /\ ~(nx.ok /\ ny.ok)
                    => /\ ~last.result.ok
                       /\ last.result.type = "ValueError"
                       /\ last.result.text = "does not match expected format"
                       /\ last.dispatched = <<>>
               \* "1h2m3.5s", "1d2m" under (HMS, DMS)
               /\ ( /\ session.number_format = <<"HMS", "DMS">>
                    /\ x = <<"1", "h", "2", "m", "3", ".", "5", "s">>
                    /\ y = <<"1", "d", "2", "m">> )
                    => last.dispatched =
                         <<Action("setCenterWcs",
                                  << <<"1", ":", "2", ":", "3", ".", "5">>,
                                     <<"1", ":", "2", ":">> >>)>>
               \* "5", "1d2m" under (HMS, DMS): x is not in the format of its axis
               /\ ( /\ session.number_format = <<"HMS", "DMS">>
                    /\ x = <<"5">> )
                    => last.dispatched = <<>>

\* Under (HMS, DMS) "1h2m3.5s", "1d2m" was dispatched: the two axes differ.
C5_Witness ==
    /\ last.op = "set_center"
    /\ last.args[1] = <<"1", "h", "2", "m", "3", ".", "5", "s">>
    /\ last.args[2] = <<"1", "d", "2", "m">>
    /\ last.formats = <<"HMS", "DMS">>
    /\ last.dispatched # <<>>

\* C6: a call of set_center with a system changes the session-wide coordinate
\* system first: before the coordinates are classified and before the number
\* format is read, so that the world coordinates of the same call are parsed
\* against the number format in effect after the change.
C6_SystemChangedFirst ==
    \A x, y \in PixelCoords \cup WorldCoords, sys \in CoordinateSystem :
        ( /\ last.op = "set_center"
          /\ last.args = <<x, y, sys>> )
        => LET after == DefaultNumberFormat(sys)
               nx == CoordinateUnit_normalized(x, after[1])
               ny == CoordinateUnit_normalized(y, after[2])
           IN  /\ last.trace[1] = Ev("set_coordinate_system", sys)
               /\ \A i \in DOMAIN last.trace :
                     last.trace[i][1] \in {"is_pixel", "number_format", "normalized"}
                        => i > 1
               /\ session.system = sys
               /\ last.session_actions = <<Action("overlayStore.global.setSystem", <<sys>>)>>
               /\ last.formats # <<>> => last.formats = after
               /\ ( /\ x \in WorldCoords /\ y \in WorldCoords
                    /\ Attr("valid_wcs") /\ nx.ok /\ ny.ok )
                    => last.dispatched =
                         <<Action("setCenterWcs", <<nx.value, ny.value>>)>>

\* A call changed the system, and with it the number formats, and its world
\* coordinates were dispatched as parsed in the new formats.
C6_Witness ==
    /\ last.op = "set_center"
    /\ last.args[3] = "FK5"
    /\ last.entry.number_format = <<"DEGREES", "DEGREES">>
    /\ last.formats = <<"HMS", "DMS">>
    /\ last.dispatched # <<>>

\* C7, amended: for every decimal magnitude m and every unit spelling u of the
\* unit table (the empty unit included, which means arcsecond),
\* SizeUnit.normalized of m followed by u returns m unchanged and the canonical
\* spelling of u, which is px, deg, ' or ": "123px" gives ("123", "px"),
\* "123 deg" gives ("123", "deg"), "123arcmin" gives ("123", "'"), "123" gives
\* ("123", "\""), and "abc", which is in neither grammar, raises the format
\* error.
C7_SizeNormalized ==
    last.op = "SizeUnit.normalized" =>
        /\ \A m \in Magnitudes, u \in DOMAIN NORMALIZED_UNIT :
              last.args = <<m \o u>> => last.result = Returned(<<m, NORMALIZED_UNIT[u]>>)
        /\ last.args = << <<"1", "2", "3", "p", "x">> >>
              => last.result = Returned(<< <<"1", "2", "3">>, <<"p", "x">> >>)
        /\ last.args = << <<"1", "2", "3", " ", "d", "e", "g">> >>
              => last.result = Returned(<< <<"1", "2", "3">>, <<"d", "e", "g">> >>)
        /\ last.args = << <<"1", "2", "3", "a", "r", "c", "m", "i", "n">> >>
              => last.result = Returned(<< <<"1", "2", "3">>, <<"'">> >>)
        /\ last.args = << <<"1", "2", "3">> >>
              => last.result = Returned(<< <<"1", "2", "3">>, <<"\"">> >>)
        /\ last.args = << <<"a", "b", "c">> >>
              => last.result =
                    Raised("ValueError", "is not in a recognized size format.",
                           << <<"a", "b", "c">> >>)

\* "123 deg" was normalized.
C7_Witness ==
    /\ last.op = "SizeUnit.normalized"
    /\ last.args = << <<"1", "2", "3", " ", "d", "e", "g">> >>
    /\ last.result.ok

\* C7 as stated: "123px" gives ("123", "pixel"), "123 deg" gives
\* ("123", "degree") and "123arcmin" gives ("123", "arcmin").
C7_SizeNormalizedToWords ==
    last.op = "SizeUnit.normalized" =>
        /\ last.args = << <<"1", "2", "3", "p", "x">> >>
              => last.result = Returned(<< <<"1", "2", "3">>, U_pixel >>)
        /\ last.args = << <<"1", "2", "3", " ", "d", "e", "g">> >>
              => last.result = Returned(<< <<"1", "2", "3">>, U_degree >>)
        /\ last.args = << <<"1", "2", "3", "a", "r", "c", "m", "i", "n">> >>
              => last.result = Returned(<< <<"1", "2", "3">>, U_arcmin >>)
        /\ last.args = << <<"a", "b", "c">> >>
              => last.result =
                    Raised("ValueError", "is not in a recognized size format.",
                           << <<"a", "b", "c">> >>)

\* C8: unit words are case-insensitive in SizeUnit.normalized: for a word unit
\* written in any letter case ("123PX", "123 Deg", "123ArcMin") it returns the
\* pair it returns for the lower-case spelling, and never fails.
C8_UnitCaseInsensitive ==
    \A u \in MixedCaseUnits, w \in {<<>>, <<" ">>} :
        ( /\ last.op = "SizeUnit.normalized"
          /\ last.args = << <<"1", "2", "3">> \o w \o u >> )
        => last.result = Returned(<< <<"1", "2", "3">>, NORMALIZED_UNIT[LowerStr(u)] >>)

ZoomOp(dim) == IF dim = "X" THEN "zoom_to_size_x" ELSE "zoom_to_size_y"

ZoomPixelAction(dim) == IF dim = "X" THEN "zoomToSizeX" ELSE "zoomToSizeY"

ZoomWorldAction(dim) == IF dim = "X" THEN "zoomToSizeXWcs" ELSE "zoomToSizeYWcs"

MissingWcsSizeError ==
    Raised("ValueError",
           "Cannot parse angular size. This image does not contain valid WCS information.",
           <<>>)

\* C9: zoom_to_size_x / zoom_to_size_y of a size whose unit is a pixel unit
\* dispatch "zoomToSizeX" / "zoomToSizeY" with the magnitude as a float, and do
\* not need valid_wcs; for any other unit they fail with the missing-WCS error
\* and dispatch nothing if valid_wcs is false, and dispatch "zoomToSizeXWcs" /
\* "zoomToSizeYWcs" with the magnitude string followed by the normalized unit if
\* it is true (a size without a unit is sent as arcseconds).
C9_ZoomToSize ==
    \A dim \in {"X", "Y"} :
        last.op = ZoomOp(dim) =>
            /\ \A m \in MagnitudeValues, w \in {<<>>, <<" ">>}, u \in DOMAIN NORMALIZED_UNIT :
                  ( /\ last.args = <<m.str \o w \o u>>
                    /\ w = <<>> \/ u \in WORD_UNITS )
                  => IF NORMALIZED_UNIT[u] = U_px
                     THEN /\ last.result = Returned(None)
                          /\ last.dispatched = <<Action(ZoomPixelAction(dim), <<Float(m)>>)>>
                          /\ ~HasEvent("get_value")
                     ELSE IF ~Attr("valid_wcs")
                     THEN /\ last.result = MissingWcsSizeError
                          /\ last.dispatched = <<>>
                     ELSE /\ last.result = Returned(None)
                          /\ last.dispatched =
                               <<Action(ZoomWorldAction(dim), <<m.str \o NORMALIZED_UNIT[u]>>)>>
            /\ (last.args = << <<"1", "2", "3">> >> /\ Attr("valid_wcs"))
                  => last.dispatched =
                        <<Action(ZoomWorldAction(dim), << <<"1", "2", "3", "\"">> >>)>>

\* zoom_to_size_x("123 px") was dispatched on an image without WCS.
C9_Witness ==
    /\ last.op = "zoom_to_size_x"
    /\ last.args = << <<"1", "2", "3", " ", "p", "x">> >>
    /\ ~remote.valid_wcs
    /\ last.dispatched # <<>>

ChannelFailed(descr) ==
    /\ ~last.result.ok
    /\ last.result.type = "CartaValidationFailed"
    /\ last.result.args[3] = descr
    /\ last.dispatched = <<>>

\* C10: for an image of depth d, set_channel(c) is accepted for every integer c
\* with 0 <= c <= d - 1 and dispatches "setChannels" with c; it is rejected for
\* c = d ("must be smaller"), for the non-integer 1.5 ("not an increment of 1")
\* and for every c < 0 ("must be greater or equal").  Channels are counted in
\* halves: last.args[1] is twice c.
C10_ChannelRange ==
    \A c2 \in ChannelArgs, recursive \in BOOLEAN :
        ( /\ last.op = "set_channel"
          /\ last.args = <<c2, recursive>> )
        => LET d == Attr("depth")
           IN  /\ (c2 % 2 = 0 /\ 0 <= c2 /\ c2 <= 2 * (d - 1))
                    => /\ last.result = Returned(None)
                       /\ last.dispatched =
                            <<Action("setChannels",
                                     <<c2 \div 2, macro("requiredStokes"), recursive>>)>>
               /\ c2 = 2 * d => ChannelFailed("must be smaller than")
               /\ (c2 = 3 /\ c2 < 2 * d) => ChannelFailed("not an increment of 1")
               /\ c2 < 0 => ChannelFailed("must be greater or equal to")

\* The last channel of an image of depth 2 was set.
C10_Witness ==
    /\ last.op = "set_channel"
    /\ last.args[1] = 2
    /\ Attr("depth") = 2
    /\ last.dispatched # <<>>

\* C11: validation runs before the method and stops at the first rule that
\* fails: a call of set_center or zoom_to_size_x / zoom_to_size_y with an
\* argument that fails its rule ("abc", "-5px", a system that is no member of
\* CoordinateSystem) fails with the validation error of the first such
\* parameter, the rules of the later parameters are not evaluated, and the body
\* does not run: nothing is dispatched on the image or on the session, and the
\* coordinate system of the session is as it was, also when a system was given.
C11_ValidationFirst ==
    /\ \A x, y \in ValidateCoords, sys \in ValidateSystems :
          ( /\ last.op = "set_center"
            /\ last.args = <<x, y, sys>>
            /\ x \in OtherCoords \/ y \in OtherCoords \/ sys \notin SystemArgs )
          => LET first == IF x \in OtherCoords THEN 1 ELSE IF y \in OtherCoords THEN 2 ELSE 3
                 params == <<"x", "y", "system">>
             IN  /\ ~last.result.ok
                 /\ last.result.type = "CartaValidationFailed"
                 /\ last.result.args[1] = params[first]
                 /\ last.result.args[2] = last.args[first]
                 /\ last.rules = SubSeq(params, 1, first)
                 /\ last.trace = <<>>
                 /\ last.dispatched = <<>>
                 /\ last.session_actions = <<>>
                 /\ session = last.entry
    /\ \A dim \in {"X", "Y"} :
          ( /\ last.op = ZoomOp(dim)
            /\ last.args = << <<"a", "b", "c">> >> )
          => /\ ~last.result.ok
             /\ last.result.type = "CartaValidationFailed"
             /\ last.rules = <<"size">>
             /\ last.trace = <<>>
             /\ last.dispatched = <<>>
             /\ session = last.entry

\* set_center("5", "abc", "FK5") in a session in GALACTIC failed on y and left
\* the session in GALACTIC.
C11_Witness ==
    /\ last.op = "set_center"
    /\ last.args = << <<"5">>, <<"a", "b", "c">>, "FK5" >>
    /\ last.entry.system = "GALACTIC"
    /\ last.rules = <<"x", "y">>
    /\ session.system = "GALACTIC"

\* The call of set_channel just made was validated against depth d: the whole
\* channels below d were dispatched, the channels from d on were rejected.
ChannelValidatedAgainst(d) ==
    LET c2 == last.args[1]
    IN  /\ (c2 % 2 = 0 /\ 0 <= c2 /\ c2 < 2 * d)
            => /\ last.result = Returned(None)
               /\ last.dispatched # <<>>
        /\ c2 >= 2 * d => ChannelFailed("must be smaller than")

\* C12 as stated: the upper bound of the rule of set_channel is the depth of the
\* image at the time of each call: when the depth differs between two calls on
\* the same Image object, the second call is validated against the new depth.
C12_ChannelAgainstLiveDepth ==
    last.op = "set_channel" => ChannelValidatedAgainst(remote.depth)

\* C12, amended: the upper bound of the rule of set_channel is the depth
\* property of the Image object, read at each call; the property is memoized, so
\* the first call fetches the depth of that time and is validated against it, and
\* every later call on the same object is validated against the depth the first
\* call saw, whatever the depth of the image has become since.
C12_ChannelAgainstFirstDepth ==
    /\ [](last.op = "set_channel" =>
            /\ "depth" \in DOMAIN cache
            /\ ChannelValidatedAgainst(cache["depth"])
            /\ HasEvent("get_value") => cache["depth"] = remote.depth)
    /\ [][("depth" \in DOMAIN cache) =>
            /\ "depth" \in DOMAIN cache'
            /\ cache'["depth"] = cache["depth"]
            /\ last'.op = "set_channel" => ~(\E i \in DOMAIN last'.trace :
                                                last'.trace[i][1] = "get_value")]_vars

\* Channel 1 was rejected on an object that saw depth 1 when the image has
\* depth 2.
C12_Witness ==
    /\ last.op = "set_channel"
    /\ last.args[1] = 2
    /\ "depth" \in DOMAIN cache
    /\ cache["depth"] = 1
    /\ remote.depth = 2
    /\ ChannelFailed("must be smaller than")

\* C13: under number format degrees, CoordinateUnit.normalized returns a bare
\* decimal, positive or negative, unchanged, and for every signed decimal n and
\* every degree unit u, with or without whitespace before it, n followed by u is
\* normalized to the string the bare n is normalized to: "123 deg" gives "123"
\* and "-45deg" gives "-45".
C13_DegreesKeepSign ==
    \A n \in SignedDecimals :
        ( /\ last.op = "CoordinateUnit.normalized"
          /\ last.args[2] = "DEGREES" )
        => /\ last.args[1] = n => last.result = Returned(n)
           /\ \A w \in {<<>>, <<" ">>}, u \in DEGREE_UNITS :
                 last.args[1] = n \o w \o u => last.result = Returned(n)

\* C14: under number format HMS (resp. DMS), CoordinateUnit.normalized
\* reassembles a letter-delimited coordinate, each of whose three parts may be
\* left out, as "H:M:S": a part that is left out is rendered as the empty string
\* and a part that is there is copied unchanged, so "12h34m56.789s" gives
\* "12:34:56.789" and "12h30m" gives "12:30:".
C14_LetterFormReassembled ==
    last.op = "CoordinateUnit.normalized" =>
        /\ \A f \in FirstParts, m \in MinuteParts, sec \in SecondParts :
              /\ last.args = <<LetterForm(f, m, sec, "h"), "HMS">>
                    => last.result = Returned(f \o <<":">> \o m \o <<":">> \o sec)
              /\ last.args = <<LetterForm(f, m, sec, "d"), "DMS">>
                    => last.result = Returned(f \o <<":">> \o m \o <<":">> \o sec)
        /\ last.args = <<<<"1", "2", "h", "3", "4", "m", "5", "6", ".", "7", "8", "9", "s">>, "HMS">>
              => last.result = Returned(<<"1", "2", ":", "3", "4", ":", "5", "6", ".", "7", "8", "9">>)
        /\ last.args = <<<<"1", "2", "d", "3", "4", "m", "5", "6", ".", "7", "8", "9", "s">>, "DMS">>
              => last.result = Returned(<<"1", "2", ":", "3", "4", ":", "5", "6", ".", "7", "8", "9">>)
        /\ last.args = <<<<"1", "2", "h", "3", "0", "m">>, "HMS">>
              => last.result = Returned(<<"1", "2", ":", "3", "0", ":">>)

\* "12h30m" was normalized under HMS.
C14_Witness ==
    /\ last.op = "CoordinateUnit.normalized"
    /\ last.args = <<<<"1", "2", "h", "3", "0", "m">>, "HMS">>
    /\ last.result.ok

\* The format error of CoordinateUnit.normalized: it states the coordinate and
\* the expected format.
FormatErrorFor(coord, fmt) ==
    Raised("ValueError", "does not match expected format", <<coord, fmt>>)

\* C15: CoordinateUnit.normalized accepts a coordinate only in the grammars of
\* the number format asked for: a bare decimal and a decimal with a degree unit
\* are rejected under HMS and DMS; a colon-delimited and a letter-delimited
\* string are rejected under DEGREES; a letter form whose first part is written
\* with the letter of the other format, and a colon form with three digits of
\* degrees under HMS, are rejected too.  Each rejection is the format error with
\* the coordinate and the expected format.
C15_OnlyOwnGrammar ==
    last.op = "CoordinateUnit.normalized" =>
        LET coord == last.args[1]
            fmt == last.args[2]
            rejected == last.result = FormatErrorFor(coord, fmt)
        IN  /\ (coord \in SignedDecimals \cup DegreeCoords /\ fmt \in {"HMS", "DMS"})
                    => rejected
            /\ ( /\ coord \in ColonCoords \cup LongColonCoords \cup LetterCoords("h")
                                \cup LetterCoords("d")
                  /\ fmt = "DEGREES" )
                    => rejected
            /\ \A f \in FirstParts \ {<<>>}, m \in MinuteParts, sec \in SecondParts :
                  /\ (coord = LetterForm(f, m, sec, "h") /\ fmt = "DMS") => rejected
                  /\ (coord = LetterForm(f, m, sec, "d") /\ fmt = "HMS") => rejected
            /\ (coord \in LongColonCoords /\ fmt = "HMS") => rejected
            /\ coord \in NoCoords => rejected

\* "12:34:56.789" was rejected under DEGREES.
C15_Witness ==
    /\ last.op = "CoordinateUnit.normalized"
    /\ last.args = <<<<"1", "2", ":", "3", "4", ":", "5", "6", ".", "7", "8", "9">>, "DEGREES">>
    /\ ~last.result.ok

\* The format error of SizeUnit.normalized
SizeFormatError(size) ==
    Raised("ValueError", "is not in a recognized size format.", <<size>>)

\* C16: SizeUnit.normalized accepts whitespace between the magnitude and the
\* unit only for word units: "123 deg" and "123 px" parse like "123deg" and
\* "123px", while a magnitude followed by whitespace and a symbol unit ("123 '",
\* "123 \"") or by whitespace alone is rejected with the format error.
C16_SpaceBeforeWordUnitsOnly ==
    last.op = "SizeUnit.normalized" =>
        LET size == last.args[1]
            m == <<"1", "2", "3">>
        IN  /\ \A u \in {U_deg, U_px} :
                  size = m \o <<" ">> \o u
                    => last.result = Returned(<<m, NORMALIZED_UNIT[u]>>)
            /\ \A u \in {U_quote, U_dquote} :
                  size = m \o <<" ">> \o u => last.result = SizeFormatError(size)
            /\ size \in TrailingSpaceSizes => last.result = SizeFormatError(size)

\* A caller that has changed the system and not yet read the number format
BetweenChangeAndRead(a) == callers[a].pc \in {"classify", "read_format"}

\* C17: two callers run set_center concurrently on one session.  Nothing keeps
\* one caller from changing the coordinate system while the other is between
\* its own change and its read of the number format (there is no lock); every
\* change overwrites the session's system and number format, and every read
\* returns the number format of the session as it is then (last write wins).
\* A caller's world coordinates are normalized against the formats it read,
\* which are those of the other caller's system when that change came in
\* between.
C17_LastWriteWins ==
    /\ [](\A a, b \in Callers :
            /\ (a # b /\ BetweenChangeAndRead(a) /\ callers[b].pc = "entered")
                  => ENABLED RaceSetSystem(b)
            /\ (callers[a].pc = "done" /\ callers[a].formats # <<>>)
                  => LET nx == CoordinateUnit_normalized(callers[a].x, callers[a].formats[1])
                         ny == CoordinateUnit_normalized(callers[a].y, callers[a].formats[2])
                     IN  IF nx.ok /\ ny.ok
                         THEN callers[a].dispatched =
                                <<Action("setCenterWcs", <<nx.value, ny.value>>)>>
                         ELSE /\ callers[a].dispatched = <<>>
                              /\ ~callers[a].result.ok
                              /\ callers[a].result.text = "does not match expected format")
    /\ [][\A a \in Callers :
            /\ ( /\ callers[a].pc = "entered"
                  /\ callers'[a].pc = "classify"
                  /\ callers[a].system # None )
                  => /\ session'.system = callers[a].system
                     /\ session'.number_format = DefaultNumberFormat(callers[a].system)
            /\ (callers[a].pc = "read_format" /\ callers'[a].pc = "normalize")
                  => callers'[a].formats = session.number_format]_vars

\* Caller 1 asked for GALACTIC, whose format is degrees, and had "5" rejected
\* against the HMS format of caller 2's FK5.
C17_Witness ==
    /\ callers[1].pc = "done"
    /\ callers[1].system = "GALACTIC"
    /\ callers[1].x = <<"5">>
    /\ callers[1].formats = <<"HMS", "DMS">>
    /\ ~callers[1].result.ok
    /\ callers[2].system = "FK5"
    /\ callers[2].pc # "idle"

\* The step is a read of the property on the object.
ReadsProperty(object, name) ==
    last.op = "none" /\ last'.op = "property" /\ last'.args = <<object, name>>

\* What a step does to the cache of one object, c before and c1 after it.
MemoizedStep(object, c, c1) ==
    \A name \in PropertyNames :
        /\ name \in DOMAIN c
              => /\ name \in DOMAIN c1
                 /\ c1[name] = c[name]
                 /\ ReadsProperty(object, name)
                       => /\ last'.trace = <<>>
                          /\ last'.result = Returned(c[name])
        /\ name \notin DOMAIN c
              => IF ReadsProperty(object, name)
                 THEN /\ last'.trace = <<Ev("get_value", name)>>
                      /\ last'.result = Returned(remote[name])
                      /\ name \in DOMAIN c1
                      /\ c1[name] = remote[name]
                 ELSE name \notin DOMAIN c1

\* C18: each memoized property of an Image object is fetched from the frontend
\* at most once: the first read fetches the value and keeps it, and every later
\* read of that property on that object returns the first value without a fetch,
\* whatever the value in the frontend has become.  A read of one property does
\* not fill or change the cache of another property, and a read on one Image
\* object does not fill or change the cache of the other object.
C18_FetchedOnce ==
    [][MemoizedStep(1, cache, cache') /\ MemoizedStep(2, other, other')]_vars

\* The first object returned the depth it had cached, which is no longer the
\* depth in the frontend, and the second object has cached no depth.
C18_Witness ==
    /\ last.op = "property"
    /\ last.args = <<1, "depth">>
    /\ last.trace = <<>>
    /\ last.result.value # remote.depth
    /\ "depth" \notin DOMAIN other

\* The stage of plot_contours an action belongs to: 1 the contour
\* configuration, 2 the dash settings, 3 the colour, 4 the colourmap, 5 apply.
ContourStage(a) ==
    CASE a.name = "contourConfig.setContourConfiguration" -> 1
      [] a.name \in {"contourConfig.setDashMode", "contourConfig.setThickness"} -> 2
      [] a.name = "contourConfig.setColor" -> 3
      [] a.name = "contourConfig.setColormapEnabled" -> IF a.args[1] THEN 4 ELSE 3
      [] a.name \in {"contourConfig.setColormap", "contourConfig.setColormapBias",
                     "contourConfig.setColormapContrast"} -> 4
      [] a.name = "applyContours" -> 5

\* C19: plot_contours dispatches its actions in the order: contour
\* configuration, dash settings, colour (if given), colourmap (if given), and
\* "applyContours" last, once; so when both a colour and a colourmap are given,
\* the last "contourConfig.setColormapEnabled" before "applyContours" carries
\* True.
C19_ContourOrder ==
    last.op = "plot_contours" =>
        LET d == last.dispatched
            color == last.args[6]
            colormap == last.args[7]
            at(name) == {i \in DOMAIN d : d[i].name = name}
            enabled == at("contourConfig.setColormapEnabled")
        IN  /\ \A i, j \in DOMAIN d : i < j => ContourStage(d[i]) <= ContourStage(d[j])
            /\ at("contourConfig.setContourConfiguration") = {1}
            /\ at("applyContours") = {Len(d)}
            /\ (\E i \in DOMAIN d : ContourStage(d[i]) = 2)
                  <=> (last.args[4] # None \/ last.args[5] # None)
            /\ IF color # None
               THEN \E i \in at("contourConfig.setColor") : d[i].args = <<color>>
               ELSE at("contourConfig.setColor") = {}
            /\ IF colormap # None
               THEN \E i \in at("contourConfig.setColormap") : d[i].args = <<colormap>>
               ELSE \A i \in DOMAIN d : ContourStage(d[i]) # 4
            /\ (color # None /\ colormap # None)
                  => /\ Cardinality(enabled) = 2
                     /\ \A i \in enabled :
                           (\A j \in enabled : j <= i) => d[i].args = <<TRUE>>

\* A colour and a colourmap were given.
C19_Witness ==
    /\ last.op = "plot_contours"
    /\ last.args[6] = "red"
    /\ last.args[7] = "viridis"
    /\ last.args[8] = "0.5"
    /\ Len(last.dispatched) = 7

\* The errors set_center raises after validation
SetCenterErrors ==
    {"are outside the bounds of the image", "Cannot mix image and world coordinates.",
     "Cannot parse world coordinates. This image does not contain valid WCS information.",
     "does not match expected format"}

\* C20: set_center does not roll back a change of the coordinate system: a call
\* with a system and arguments that pass validation leaves the session in that
\* system, with its number formats, and has dispatched the change once,
\* whether the call returned (two image coordinates included) or failed with the
\* bounds, the mixed-units, the missing-WCS or the format error.
C20_SystemChangeKept ==
    \A x, y \in PixelCoords \cup WorldCoords, sys \in CoordinateSystem :
        ( /\ last.op = "set_center"
          /\ last.args = <<x, y, sys>> )
        => /\ session.system = sys
           /\ session.number_format = DefaultNumberFormat(sys)
           /\ last.session_actions = <<Action("overlayStore.global.setSystem", <<sys>>)>>
           /\ \/ last.result = Returned(None) /\ Len(last.dispatched) = 1
              \/ /\ ~last.result.ok
                 /\ last.result.type = "ValueError"
                 /\ last.result.text \in SetCenterErrors
                 /\ last.dispatched = <<>>

\* Each way the call can end, in a session that was in GALACTIC and is now in FK5
SystemChangedAndEnded(text) ==
    /\ last.op = "set_center"
    /\ last.args[3] = "FK5"
    /\ last.entry.system = "GALACTIC"
    /\ session.system = "FK5"
    /\ IF text = "" THEN last.result.ok /\ last.dispatched[1].name = "setCenter"
       ELSE ~last.result.ok /\ last.result.text = text

\* A call with two image coordinates outside the image failed with the bounds
\* error and left the session in the system it was given.
C20_Witness ==
    SystemChangedAndEnded("are outside the bounds of the image")

\* The image actions of a method: its pixel variant and its world variant
ViewActions(op) ==
    IF op = "set_center" THEN {"setCenter", "setCenterWcs"}
    ELSE IF op = "zoom_to_size_x" THEN {"zoomToSizeX", "zoomToSizeXWcs"}
    ELSE {"zoomToSizeY", "zoomToSizeYWcs"}

\* The positions of the trace at which an image action was dispatched
DispatchSteps == {i \in DOMAIN last.trace : last.trace[i][1] = "call_action"}

C22_NormalizedIdempotent ==
    last.op = "CoordinateUnit.normalized twice" =>
        LET r == last.trace[1][2]
            fmt == last.args[2]
        IN  /\ last.result = Returned(r)
            /\ fmt = "DEGREES" => DECIMAL_REGEX(r)
            /\ fmt = "HMS" => HMS_COLON_REGEX(r)
            /\ fmt = "DMS" => DMS_COLON_REGEX(r)

\* normalized("12h30m", HMS) returned "12:30:", and normalized("12:30:", HMS)
\* returned "12:30:".
C22_Witness ==
    /\ last.op = "CoordinateUnit.normalized twice"
    /\ last.args = << <<"1", "2", "h", "3", "0", "m">>, "HMS" >>
    /\ last.trace = <<Ev("returned", <<"1", "2", ":", "3", "0", ":">>)>>
    /\ last.result = Returned(<<"1", "2", ":", "3", "0", ":">>)

\* The call made no use of the session: it read no number format and changed
\* no coordinate system.
SessionUnused ==
    /\ last.formats = <<>>
    /\ ~HasEvent("number_format")
    /\ ~HasEvent("set_coordinate_system")
    /\ last.session_actions = <<>>

\* C23: the session is changed by an explicit system only.  set_center without
\* a system (None) leaves the session's coordinate system and number format as
\* they were at the call and dispatches nothing on the session; it reads the
\* number format only when neither coordinate is an image coordinate (and the
\* image has WCS), and then once.  zoom_to_size_x and zoom_to_size_y neither
\* read nor change the session's coordinate system or number format.
C23_SessionChangedByOverrideOnly ==
    /\ (last.op = "set_center" /\ last.args[3] = None) =>
          /\ session = last.entry
          /\ last.session_actions = <<>>
          /\ ~HasEvent("set_coordinate_system")
          /\ IF /\ last.rules = <<"x", "y", "system">>
                /\ ~is_pixel(last.args[1])
                /\ ~is_pixel(last.args[2])
                /\ Attr("valid_wcs")
             THEN /\ last.formats = session.number_format
                  /\ Cardinality({i \in DOMAIN last.trace : last.trace[i][1] = "number_format"}) = 1
             ELSE SessionUnused
    /\ last.op \in {"zoom_to_size_x", "zoom_to_size_y"} =>
          /\ session = last.entry
          /\ SessionUnused

\* set_center("5", "5") in a GALACTIC session, on an image with WCS: the formats
\* were read, the action was dispatched and the session is as it was.
C23_Witness ==
    /\ last.op = "set_center"
    /\ last.args = << <<"5">>, <<"5">>, None >>
    /\ last.entry.system = "GALACTIC"
    /\ session = last.entry
    /\ last.formats = <<"DEGREES", "DEGREES">>
    /\ last.dispatched = <<Action("setCenterWcs", << <<"5">>, <<"5">> >>)>>

\* The number of colons in a string
Colons(t) == Cardinality({i \in DOMAIN t : t[i] = ":"})

\* C24: all three parts of the letter-delimited grammars are optional, so
\* CoordinateUnit.normalized accepts the empty string under HMS and under DMS
\* and returns "::" for it, not the format error; and every result made of a
\* letter form, whichever parts it has, contains exactly two colons.
C24_EmptyGivesColons ==
    \A fmt \in {"HMS", "DMS"} :
        /\ (last.op = "CoordinateUnit.normalized" /\ last.args = << <<>>, fmt >>)
              => last.result = Returned(<<":", ":">>)
        /\ \A coord \in LetterCoords(IF fmt = "HMS" THEN "h" ELSE "d") :
              (last.op = "CoordinateUnit.normalized" /\ last.args = <<coord, fmt>>)
              => /\ last.result.ok
                 /\ Colons(last.result.value) = 2

\* normalized("", NumberFormat.HMS) returned "::".
C24_Witness ==
    /\ last.op = "CoordinateUnit.normalized"
    /\ last.args = << <<>>, "HMS" >>
    /\ last.result.ok
    /\ last.result.value = <<":", ":">>

====
